---- MODULE Spec2Model ----
(***************************************************************************)
(* Habit tracker (pacheseo/app): the streak analytics of src/analytics.py, *)
(* its report of struggling habits, the longest streak over all habits of  *)
(* src/habit_controller.py, and the stored habits and completions of       *)
(* src/database.py under the operations of src/manager.py and of the       *)
(* controller.                                                             *)
(*                                                                         *)
(* A calendar date is its proleptic Gregorian ordinal (date.toordinal()),  *)
(* a completion instant (datetime) is  ordinal * SlotsPerDay + slot, and a *)
(* string is the sequence of its code points ("-" is 45, "0" is 48).       *)
(* A call returns a record  [raised, value] : raised = "None" when the     *)
(* call returned value, and the exception's name when it raised.           *)
(***************************************************************************)
EXTENDS Integers, Sequences, FiniteSets, TLC

VARIABLES completions, schedule, today, current, longest

\* the habits in the order they were created, the completions logged for
\* each name, the period and the results of the analyses of all habits
VARIABLES all_habits, completions_of, period, struggling, best, called

analysis == <<all_habits, completions_of, period, struggling, best, called>>

\* the last operation on the stored habits, with what it returned or raised
VARIABLES outcome

vars == <<completions, schedule, today, current, longest, analysis, outcome>>

(***************************************************************************)
(* Bounds of the model.                                                    *)
(***************************************************************************)
\* times of day told apart within one calendar date
SlotsPerDay == 2
\* longest completion list built in arbitrary order, duplicates included
MaxLen == 3
\* those lists take their dates at most this many days from base_date
DenseRadius == 1
\* longest completion list built in stored order over the whole window
MaxDates == 5
\* the window of completion dates starts this many days before base_date
\* (25 December 2022, a Sunday) ...
DaysBefore == 8
\* ... and ends this many days after it
DaysAfter == 1

\* most habits put on the list one by one
MaxHabits == 3
\* most completions logged one by one, over all habits
MaxLogged == 2
\* longest period, in days, the struggling habits are asked for
MaxDays == 7

\* most habits stored at once
MaxStored == 2
\* most completions stored at once by single calls, over all habits
MaxMarks == 2

\* the weekly test completes its habit on this many Mondays in a row
NumWeeks == 4

(***************************************************************************)
(* The calendar of Python's datetime.date.                                 *)
(***************************************************************************)
IsLeap(y) == (y % 4 = 0) /\ ((y % 100 # 0) \/ (y % 400 = 0))

\* ordinal of the day before 1 January of year y
DaysBeforeYear(y) ==
    (y - 1) * 365 + ((y - 1) \div 4) - ((y - 1) \div 100) + ((y - 1) \div 400)

DaysBeforeMonth(y, m) ==
    LET cum == <<0, 31, 59, 90, 120, 151, 181, 212, 243, 273, 304, 334>>
    IN  cum[m] + (IF m > 2 /\ IsLeap(y) THEN 1 ELSE 0)

\* datetime.date(y, m, d).toordinal()
Date(y, m, d) == DaysBeforeYear(y) + DaysBeforeMonth(y, m) + d

\* <<year, day of the year counted from 0>> of an ordinal
YearAndDay(ord) ==
    LET n0   == ord - 1
        n400 == n0 \div 146097
        r400 == n0 % 146097
        n100 == r400 \div 36524
        r100 == r400 % 36524
        n4   == r100 \div 1461
        r4   == r100 % 1461
        n1   == r4 \div 365
        r1   == r4 % 365
        y    == n400 * 400 + n100 * 100 + n4 * 4 + n1 + 1
    IN  IF n1 = 4 \/ n100 = 4
        THEN <<y - 1, IF IsLeap(y - 1) THEN 365 ELSE 364>>
        ELSE <<y, r1>>

\* date.weekday(): Monday is 0, Sunday is 6
Weekday(ord) == (ord + 6) % 7

\* the number %W prints: weeks start on Monday, the days of a year before
\* its first Monday are in week 0
WeekOfYear(ord) == (YearAndDay(ord)[2] + 7 - Weekday(ord)) \div 7

(***************************************************************************)
(* Strings.                                                                *)
(***************************************************************************)
RECURSIVE ZeroPadded(_, _)
\* n in decimal, zero-padded to width digits
ZeroPadded(n, width) ==
    IF width = 0 THEN <<>>
    ELSE Append(ZeroPadded(n \div 10, width - 1), 48 + (n % 10))

\* date.strftime("%Y-%W")
strftime_Y_W(ord) ==
    ZeroPadded(YearAndDay(ord)[1], 4) \o <<45>> \o ZeroPadded(WeekOfYear(ord), 2)

RECURSIVE split(_, _)
\* str.split(sep) for a separator of one character
split(s, sep) ==
    IF \A i \in DOMAIN s : s[i] # sep THEN <<s>>
    ELSE LET k == CHOOSE i \in DOMAIN s :
                      s[i] = sep /\ \A j \in 1..(i - 1) : s[j] # sep
         IN  <<SubSeq(s, 1, k - 1)>> \o split(SubSeq(s, k + 1, Len(s)), sep)

\* whether int(s) returns (an unsigned decimal numeral) rather than raises
IsNumeral(s) == s # <<>> /\ \A i \in DOMAIN s : s[i] \in 48..57

RECURSIVE int(_)
int(s) ==
    IF s = <<>> THEN 0
    ELSE 10 * int(SubSeq(s, 1, Len(s) - 1)) + (s[Len(s)] - 48)

\* s < t for Python strings: lexicographic on code points
StrLess(s, t) ==
    \E k \in 1..(Len(s) + 1) :
        /\ k <= Len(t)
        /\ \A j \in 1..(k - 1) : s[j] = t[j]
        /\ (k = Len(s) + 1 \/ s[k] < t[k])

(***************************************************************************)
(* list(set(xs)) followed by sort() or sort(reverse=True).                 *)
(***************************************************************************)
RECURSIVE SortDatesAsc(_)
SortDatesAsc(S) ==
    IF S = {} THEN <<>>
    ELSE LET m == CHOOSE x \in S : \A y \in S : x <= y
         IN  <<m>> \o SortDatesAsc(S \ {m})

RECURSIVE SortStrsAsc(_)
SortStrsAsc(S) ==
    IF S = {} THEN <<>>
    ELSE LET m == CHOOSE x \in S : \A y \in S : x = y \/ StrLess(x, y)
         IN  <<m>> \o SortStrsAsc(S \ {m})

Reversed(s) == [i \in 1..Len(s) |-> s[Len(s) + 1 - i]]

(***************************************************************************)
(* Results of a call.                                                      *)
(***************************************************************************)
Return(n) == [raised |-> "None", value |-> n]
Raise(e) == [raised |-> e, value |-> 0]
NotCalled == [raised |-> "NotCalled", value |-> 0]

\* datetime.date(): the calendar date of an instant
date(instant) == instant \div SlotsPerDay

\* [d.date() for d in dates] as the set list(set(...)) keeps
just_dates(dates) == {date(dates[i]) : i \in DOMAIN dates}

(***************************************************************************)
(* calculate_streak: the current streak.                                   *)
(***************************************************************************)
RECURSIVE count_days_past_gaps(_, _, _)
\* count_consecutive_days without its break: a gap does not end the count
count_days_past_gaps(unique_dates, i, streak) ==
    IF i >= Len(unique_dates) - 1 THEN streak
    ELSE IF unique_dates[i + 1] - unique_dates[i + 2] = 1
    THEN count_days_past_gaps(unique_dates, i + 1, streak + 1)
    ELSE count_days_past_gaps(unique_dates, i + 1, streak)

RECURSIVE count_consecutive_days(_, _, _)
\* the loop of the daily branch, entered at Python index i with the count
\* so far: one more for each pair one day apart, until the first gap
count_consecutive_days(unique_dates, i, streak) ==
    IF i >= Len(unique_dates) - 1 THEN streak
    ELSE LET date1 == unique_dates[i + 1]
             date2 == unique_dates[i + 2]
         IN  IF date1 - date2 = 1
             THEN count_consecutive_days(unique_dates, i + 1, streak + 1)
             ELSE streak

\* daily_streak with one more day of grace: alive until two days ago
daily_streak_two_days(unique_dates, tday) ==
    LET yesterday == tday - 1
    IN  IF Len(unique_dates) = 0 THEN Raise("IndexError")
        ELSE IF unique_dates[1] < yesterday - 1 THEN Return(0)
        ELSE Return(count_consecutive_days(unique_dates, 0, 1))

\* the daily branch; unique_dates is sorted newest first
daily_streak(unique_dates, tday) ==
    LET yesterday == tday - 1
    IN  IF Len(unique_dates) = 0 THEN Raise("IndexError")
        ELSE IF unique_dates[1] < yesterday THEN Return(0)
        ELSE Return(count_consecutive_days(unique_dates, 0, 1))

\* the keys of the dict weeks: one "%Y-%W" string per week with a completion
week_keys(unique_dates) ==
    {strftime_Y_W(unique_dates[i]) : i \in DOMAIN unique_dates}

\* compare_weeks taking the first weeks of a year to follow the last bucket
\* of an earlier year
compare_weeks_across_years(later, earlier) ==
    LET parts1 == split(later, 45)
        parts2 == split(earlier, 45)
    IN  IF Len(parts1) # 2 \/ Len(parts2) # 2 THEN "ValueError"
        ELSE IF ~(IsNumeral(parts1[2]) /\ IsNumeral(parts2[2])) THEN "ValueError"
        ELSE IF parts1[1] # parts2[1]
        THEN (IF int(parts1[2]) <= 1 THEN "consecutive" ELSE "gap")
        ELSE IF int(parts1[2]) - int(parts2[2]) = 1 THEN "consecutive"
        ELSE "gap"

\* the test of both weekly loops on two adjacent keys of week_list:
\*   year1, weeknum1 = later.split("-"); year2, weeknum2 = earlier.split("-")
\*   year1 == year2 and int(weeknum1) - int(weeknum2) == 1
\* "ValueError" when an unpacking or an int() raises
compare_weeks(later, earlier) ==
    LET parts1 == split(later, 45)
        parts2 == split(earlier, 45)
    IN  IF Len(parts1) # 2 \/ Len(parts2) # 2 THEN "ValueError"
        ELSE IF parts1[1] # parts2[1] THEN "gap"
        ELSE IF ~(IsNumeral(parts1[2]) /\ IsNumeral(parts2[2])) THEN "ValueError"
        ELSE IF int(parts1[2]) - int(parts2[2]) = 1 THEN "consecutive"
        ELSE "gap"

RECURSIVE count_consecutive_weeks(_, _, _)
\* the loop of the weekly branch over week_list, newest week first
count_consecutive_weeks(week_list, i, streak) ==
    IF i >= Len(week_list) - 1 THEN Return(streak)
    ELSE LET test == compare_weeks(week_list[i + 1], week_list[i + 2])
         IN  IF test = "ValueError" THEN Raise("ValueError")
             ELSE IF test = "consecutive"
             THEN count_consecutive_weeks(week_list, i + 1, streak + 1)
             ELSE Return(streak)

\* weekly_streak lapsing a day early: >= 7 for > 7
weekly_streak_six_days(unique_dates, tday) ==
    IF Len(unique_dates) = 0 THEN Raise("IndexError")
    ELSE IF tday - unique_dates[1] >= 7 THEN Return(0)
    ELSE LET week_list == Reversed(SortStrsAsc(week_keys(unique_dates)))
         IN  count_consecutive_weeks(week_list, 0, 1)

\* the weekly branch; unique_dates is sorted newest first
weekly_streak(unique_dates, tday) ==
    IF Len(unique_dates) = 0 THEN Raise("IndexError")
    ELSE IF tday - unique_dates[1] > 7 THEN Return(0)
    ELSE LET week_list == Reversed(SortStrsAsc(week_keys(unique_dates)))
         IN  count_consecutive_weeks(week_list, 0, 1)

\* calculate_streak without its guard for an empty list
calculate_streak_unguarded(dates, sched, tday) ==
    LET unique_dates == Reversed(SortDatesAsc(just_dates(dates)))
    IN  IF sched = "daily"
        THEN daily_streak(unique_dates, tday)
        ELSE weekly_streak(unique_dates, tday)

\* the dates of the completions in the order they come in, each kept once
RECURSIVE first_seen(_, _, _)
first_seen(dates, i, seen) ==
    IF i > Len(dates) THEN seen
    ELSE IF \E k \in DOMAIN seen : seen[k] = date(dates[i])
    THEN first_seen(dates, i + 1, seen)
    ELSE first_seen(dates, i + 1, Append(seen, date(dates[i])))

\* calculate_streak without the sort of the unique dates
calculate_streak_unsorted(dates, sched, tday) ==
    IF Len(dates) = 0 THEN Return(0)
    ELSE LET unique_dates == first_seen(dates, 1, <<>>)
         IN  IF sched = "daily"
             THEN daily_streak(unique_dates, tday)
             ELSE weekly_streak(unique_dates, tday)

\* calculate_streak keeping one entry per completion instant, not per date
calculate_streak_per_instant(dates, sched, tday) ==
    IF Len(dates) = 0 THEN Return(0)
    ELSE LET instants == Reversed(SortDatesAsc({dates[i] : i \in DOMAIN dates}))
             unique_dates == [i \in DOMAIN instants |-> date(instants[i])]
         IN  IF sched = "daily"
             THEN daily_streak(unique_dates, tday)
             ELSE weekly_streak(unique_dates, tday)

calculate_streak(dates, sched, tday) ==
    IF Len(dates) = 0 THEN Return(0)
    ELSE LET unique_dates == Reversed(SortDatesAsc(just_dates(dates)))
         IN  IF sched = "daily"
             THEN daily_streak(unique_dates, tday)
             ELSE weekly_streak(unique_dates, tday)

get_current_streak_for_habit(habit, comps, tday) ==
    calculate_streak(comps, habit.schedule, tday)

(***************************************************************************)
(* get_longest_streak_for_habit: the longest streak.                       *)
(***************************************************************************)
RECURSIVE longest_daily_run_no_reset(_, _, _, _)
\* longest_daily_run that keeps counting after a gap
longest_daily_run_no_reset(unique_dates, i, cur, lng) ==
    IF i >= Len(unique_dates) THEN lng
    ELSE IF unique_dates[i + 1] - unique_dates[i] = 1
    THEN longest_daily_run_no_reset(unique_dates, i + 1, cur + 1,
                                    IF cur + 1 > lng THEN cur + 1 ELSE lng)
    ELSE longest_daily_run_no_reset(unique_dates, i + 1, cur, lng)

RECURSIVE longest_daily_run_on_gap(_, _, _, _)
\* longest_daily_run that updates the maximum only when a gap ends a run, so
\* that the run the list ends with is never counted
longest_daily_run_on_gap(unique_dates, i, cur, lng) ==
    IF i >= Len(unique_dates) THEN lng
    ELSE IF unique_dates[i + 1] - unique_dates[i] = 1
    THEN longest_daily_run_on_gap(unique_dates, i + 1, cur + 1, lng)
    ELSE longest_daily_run_on_gap(unique_dates, i + 1, 1,
                                  IF cur > lng THEN cur ELSE lng)

RECURSIVE longest_daily_run(_, _, _, _)
\* the daily loop over unique_dates, oldest first, from Python index i
longest_daily_run(unique_dates, i, cur, lng) ==
    IF i >= Len(unique_dates) THEN lng
    ELSE IF unique_dates[i + 1] - unique_dates[i] = 1
    THEN longest_daily_run(unique_dates, i + 1, cur + 1,
                           IF cur + 1 > lng THEN cur + 1 ELSE lng)
    ELSE longest_daily_run(unique_dates, i + 1, 1, lng)

RECURSIVE longest_weekly_run_no_reset(_, _, _, _)
\* longest_weekly_run that keeps counting after a gap
longest_weekly_run_no_reset(week_list, i, cur, lng) ==
    IF i >= Len(week_list) THEN Return(lng)
    ELSE LET test == compare_weeks(week_list[i + 1], week_list[i])
         IN  IF test = "ValueError" THEN Raise("ValueError")
             ELSE IF test = "consecutive"
             THEN longest_weekly_run_no_reset(week_list, i + 1, cur + 1,
                                              IF cur + 1 > lng THEN cur + 1 ELSE lng)
             ELSE longest_weekly_run_no_reset(week_list, i + 1, cur, lng)

RECURSIVE longest_weekly_run(_, _, _, _)
\* the weekly loop over week_list, oldest week first, from Python index i
longest_weekly_run(week_list, i, cur, lng) ==
    IF i >= Len(week_list) THEN Return(lng)
    ELSE LET test == compare_weeks(week_list[i + 1], week_list[i])
         IN  IF test = "ValueError" THEN Raise("ValueError")
             ELSE IF test = "consecutive"
             THEN longest_weekly_run(week_list, i + 1, cur + 1,
                                     IF cur + 1 > lng THEN cur + 1 ELSE lng)
             ELSE longest_weekly_run(week_list, i + 1, 1, lng)

\* the weekly branch; unique_dates is sorted oldest first
longest_weekly(unique_dates) ==
    LET week_list == SortStrsAsc(week_keys(unique_dates))
    IN  IF Len(week_list) = 1 THEN Return(1)
        ELSE longest_weekly_run(week_list, 1, 1, 1)

\* get_longest_streak_for_habit without its guard for an empty list
get_longest_streak_unguarded(habit, comps) ==
    LET unique_dates == SortDatesAsc(just_dates(comps))
    IN  IF Len(unique_dates) = 1 THEN Return(1)
        ELSE IF habit.schedule = "daily"
        THEN Return(longest_daily_run(unique_dates, 1, 1, 1))
        ELSE longest_weekly(unique_dates)

\* a longest streak that never looks past one completion date
get_longest_streak_of_one(habit, comps) ==
    IF Len(comps) = 0 THEN Return(0) ELSE Return(1)

get_longest_streak_for_habit(habit, comps) ==
    IF Len(comps) = 0 THEN Return(0)
    ELSE LET unique_dates == SortDatesAsc(just_dates(comps))
         IN  IF Len(unique_dates) = 1 THEN Return(1)
             ELSE IF habit.schedule = "daily"
             THEN Return(longest_daily_run(unique_dates, 1, 1, 1))
             ELSE longest_weekly(unique_dates)

(***************************************************************************)
(* find_struggling_habits.  An optional date is None or Some(ord); the     *)
(* completions map is a function from the names that have an entry; the    *)
(* report is a list of <<name, missed>> pairs.                             *)
(***************************************************************************)
None == <<>>
Some(ord) == <<ord>>

\* all_completions.get(habit.name, [])
get(map, key, default) == IF key \in DOMAIN map THEN map[key] ELSE default

\* the loop over comp_list, one count per completion inside the period
completions_in_range(comp_list, period_start, period_end) ==
    Cardinality({i \in DOMAIN comp_list :
                    /\ date(comp_list[i]) >= period_start
                    /\ date(comp_list[i]) <= period_end})

\* expected_completions counting the weeks the period touches when it starts
\* on the first day of one: one week for 7 days, two for 8 to 14
expected_completions_whole_weeks(sched, days_in_period) ==
    IF sched = "daily" THEN days_in_period
    ELSE (days_in_period + 6) \div 7

expected_completions(sched, days_in_period) ==
    IF sched = "daily" THEN days_in_period
    ELSE (days_in_period \div 7) + 1

\* missed_completions without the floor at zero
missed_completions_unfloored(habit, comp_list, period_start, period_end) ==
    LET days_in_period == (period_end - period_start) + 1
    IN  expected_completions(habit.schedule, days_in_period)
            - completions_in_range(comp_list, period_start, period_end)

missed_completions(habit, comp_list, period_start, period_end) ==
    LET completions_in_range_ == completions_in_range(comp_list, period_start, period_end)
        days_in_period == (period_end - period_start) + 1
        expected == expected_completions(habit.schedule, days_in_period)
        missed == expected - completions_in_range_
    IN  IF missed < 0 THEN 0 ELSE missed

\* an insertion that puts an entry in front of the entries already placed
\* with the same missed count
insert_before_equal(sorted, entry) ==
    LET ahead == Cardinality({i \in DOMAIN sorted : sorted[i][2] > entry[2]})
    IN  SubSeq(sorted, 1, ahead) \o <<entry>> \o SubSeq(sorted, ahead + 1, Len(sorted))

\* results.sort(key=lambda x: x[1], reverse=True): a stable sort, so an entry
\* goes behind every entry already placed whose missed count is not smaller
insert_by_missed(sorted, entry) ==
    LET ahead == Cardinality({i \in DOMAIN sorted : sorted[i][2] >= entry[2]})
    IN  SubSeq(sorted, 1, ahead) \o <<entry>> \o SubSeq(sorted, ahead + 1, Len(sorted))

RECURSIVE sort_by_missed(_, _)
sort_by_missed(results, placed) ==
    IF Len(placed) = Len(results) THEN placed
    ELSE sort_by_missed(results, insert_by_missed(placed, results[Len(placed) + 1]))

\* find_struggling_habits keeping only the habits that missed something,
\* as the controller does for display
find_struggling_habits_only_missed(habits, comps, period_start, period_end, tday) ==
    IF Len(habits) = 0 THEN <<>>
    ELSE LET p_end == IF period_end = None THEN tday ELSE period_end[1]
             p_start == IF period_start = None THEN p_end - 30 ELSE period_start[1]
             results == [i \in DOMAIN habits |->
                            <<habits[i].name,
                              missed_completions(habits[i], get(comps, habits[i].name, <<>>),
                                                 p_start, p_end)>>]
             HasMissed(entry) == entry[2] > 0
         IN  sort_by_missed(SelectSeq(results, HasMissed), <<>>)

find_struggling_habits(habits, comps, period_start, period_end, tday) ==
    IF Len(habits) = 0 THEN <<>>
    ELSE LET p_end == IF period_end = None THEN tday ELSE period_end[1]
             p_start == IF period_start = None THEN p_end - 30 ELSE period_start[1]
             results == [i \in DOMAIN habits |->
                            <<habits[i].name,
                              missed_completions(habits[i], get(comps, habits[i].name, <<>>),
                                                 p_start, p_end)>>]
         IN  sort_by_missed(results, <<>>)

(***************************************************************************)
(* HabitController.view_longest_streak_all, over the habits and the        *)
(* completions the manager reads from the database.  The text it returns   *)
(* is its frame together with the values it is filled with.                *)
(***************************************************************************)
\* SELECT * FROM habits ORDER BY created_on DESC
get_all_habits(created) == Reversed(created)

\* SELECT completion_time ... ORDER BY completion_time DESC
RECURSIVE get_completions_db(_, _)
get_completions_db(rows, placed) ==
    IF Len(placed) = Len(rows) THEN placed
    ELSE LET t == rows[Len(placed) + 1]
             ahead == Cardinality({i \in DOMAIN placed : placed[i] >= t})
         IN  get_completions_db(rows, SubSeq(placed, 1, ahead) \o <<t>> \o
                                      SubSeq(placed, ahead + 1, Len(placed)))

get_completions(logged, habit_name) ==
    get_completions_db(get(logged, habit_name, <<>>), <<>>)

\* the loop that keeps the last streak seen instead of the greatest
RECURSIVE max_streak_last_seen(_, _, _)
max_streak_last_seen(habit_streaks, i, max_streak) ==
    IF i > Len(habit_streaks) THEN max_streak
    ELSE max_streak_last_seen(habit_streaks, i + 1, habit_streaks[i][2])

\* max_streak = 0; for _, streak, _ in habit_streaks: if streak > max_streak
RECURSIVE find_max_streak(_, _, _)
find_max_streak(habit_streaks, i, max_streak) ==
    IF i > Len(habit_streaks) THEN max_streak
    ELSE IF habit_streaks[i][2] > max_streak
    THEN find_max_streak(habit_streaks, i + 1, habit_streaks[i][2])
    ELSE find_max_streak(habit_streaks, i + 1, max_streak)

Answer(text, max_streak, best_habits) ==
    [raised |-> "None", text |-> text,
     max_streak |-> max_streak, best_habits |-> best_habits]

\* the answer without the guard on an empty habit list
view_longest_streak_all_unguarded(created, logged) ==
    LET habits == get_all_habits(created)
        habit_streaks == [i \in DOMAIN habits |->
                             <<habits[i].name,
                               get_longest_streak_for_habit(
                                   habits[i],
                                   get_completions(logged, habits[i].name)).value,
                               habits[i].schedule>>]
        max_streak == find_max_streak(habit_streaks, 1, 0)
        IsBest(entry) == entry[2] = max_streak
        best_habits == SelectSeq(habit_streaks, IsBest)
    IN  IF Len(best_habits) = 1
        THEN Answer("Longest streak: {name} ({schedule}) with {streak} consecutive completions",
                    max_streak, best_habits)
        ELSE Answer("Longest streak: {max_streak} completions, shared by: {habit_list}",
                    max_streak, best_habits)

view_longest_streak_all(created, logged) ==
    LET habits == get_all_habits(created)
        streak_of == [i \in DOMAIN habits |->
                         get_longest_streak_for_habit(
                             habits[i], get_completions(logged, habits[i].name))]
    IN  IF Len(habits) = 0
        THEN Answer("No habits defined to calculate streaks.", 0, <<>>)
        ELSE IF \E i \in DOMAIN habits : streak_of[i].raised # "None"
        THEN LET i == CHOOSE k \in DOMAIN habits :
                          /\ streak_of[k].raised # "None"
                          /\ \A j \in 1..(k - 1) : streak_of[j].raised = "None"
             IN  [raised |-> streak_of[i].raised, text |-> "",
                  max_streak |-> 0, best_habits |-> <<>>]
        ELSE LET habit_streaks == [i \in DOMAIN habits |->
                                      <<habits[i].name, streak_of[i].value,
                                        habits[i].schedule>>]
                 max_streak == find_max_streak(habit_streaks, 1, 0)
                 IsBest(entry) == entry[2] = max_streak
                 best_habits == SelectSeq(habit_streaks, IsBest)
             IN  IF Len(best_habits) = 1
                 THEN Answer("Longest streak: {name} ({schedule}) with {streak} consecutive completions",
                             max_streak, best_habits)
                 ELSE Answer("Longest streak: {max_streak} completions, shared by: {habit_list}",
                             max_streak, best_habits)

(***************************************************************************)
(* The stored habits and completions: the tables of database.py, the       *)
(* DataManager over them and the HabitController over the manager.  A      *)
(* habit name is the sequence of its characters, the habits table the      *)
(* sequence of its rows in the order they were inserted, and the           *)
(* completions table the completion times of each habit name in the order  *)
(* they were inserted.  Every operation gives the tables it leaves behind  *)
(* and its outcome.                                                        *)
(***************************************************************************)
\* the characters str.strip() removes from both ends
Whitespace == {" ", "\t", "\n"}

RECURSIVE lstrip(_)
lstrip(s) ==
    IF Len(s) > 0 /\ Head(s) \in Whitespace THEN lstrip(Tail(s)) ELSE s

RECURSIVE rstrip(_)
rstrip(s) ==
    IF Len(s) > 0 /\ s[Len(s)] \in Whitespace
    THEN rstrip(SubSeq(s, 1, Len(s) - 1))
    ELSE s

strip(s) == rstrip(lstrip(s))

Outcome(op, name, sched, raised, returned, found, streaks) ==
    [op |-> op, name |-> name, schedule |-> sched, raised |-> raised,
     returned |-> returned, found |-> found, streaks |-> streaks]

After(table, logged, out) == [table |-> table, logged |-> logged, out |-> out]

\* SELECT * FROM habits WHERE name = ?: the row, or no row
get_habit_db(table, name) ==
    LET IsNamed(row) == row.name = name
    IN  SelectSeq(table, IsNamed)

get_habit(table, name) == get_habit_db(table, name)

\* an insert that takes a second row of the same name
add_habit_db_any_name(table, name, description, sched) ==
    [raised |-> "None",
     table |-> Append(table, [name |-> name, description |-> description,
                              schedule |-> sched])]

\* INSERT INTO habits, name TEXT PRIMARY KEY
add_habit_db(table, name, description, sched) ==
    IF Len(name) = 0 \/ Len(strip(name)) = 0 THEN
        [raised |-> "QueryError", table |-> table]
    ELSE IF sched # "daily" /\ sched # "weekly" THEN
        [raised |-> "QueryError", table |-> table]
    ELSE IF Len(get_habit_db(table, name)) > 0 THEN
        [raised |-> "QueryError", table |-> table]
    ELSE
        [raised |-> "None",
         table |-> Append(table, [name |-> name, description |-> description,
                                  schedule |-> sched])]

\* DataManager.add_habit
add_habit(table, logged, name, description, sched) ==
    IF Len(name) = 0 \/ Len(strip(name)) = 0 THEN
        After(table, logged,
              Outcome("add_habit", name, sched, "ValueError", "", <<>>, <<>>))
    ELSE IF sched # "daily" /\ sched # "weekly" THEN
        After(table, logged,
              Outcome("add_habit", name, sched, "ValueError", "", <<>>, <<>>))
    ELSE LET added == add_habit_db(table, name, description, sched)
         IN  IF added.raised # "None"
             THEN After(table, logged,
                        Outcome("add_habit", name, sched, added.raised, "",
                                <<>>, <<>>))
             ELSE After(added.table, logged,
                        Outcome("add_habit", name, sched, "None", "True",
                                <<>>, <<>>))

\* the rows of the other habits
without(table, name) ==
    LET IsOther(row) == row.name # name
    IN  SelectSeq(table, IsOther)

\* a delete that leaves the completions of the habit behind
delete_habit_db_no_cascade(table, logged, name) ==
    IF Len(get_habit_db(table, name)) > 0
    THEN [returned |-> "True", table |-> without(table, name), logged |-> logged]
    ELSE [returned |-> "False", table |-> table, logged |-> logged]

\* a delete that answers True whether or not a row went
delete_habit_db_always_true(table, logged, name) ==
    [returned |-> "True",
     table |-> without(table, name),
     logged |-> [n \in DOMAIN logged \ {name} |-> logged[n]]]

\* DELETE FROM habits WHERE name = ?, with ON DELETE CASCADE on the
\* completions of the habit
delete_habit_db(table, logged, name) ==
    IF Len(get_habit_db(table, name)) > 0
    THEN [returned |-> "True",
          table |-> without(table, name),
          logged |-> [n \in DOMAIN logged \ {name} |-> logged[n]]]
    ELSE [returned |-> "False", table |-> table, logged |-> logged]

\* DataManager.delete_habit
delete_habit(table, logged, name) ==
    LET deleted == delete_habit_db(table, logged, name)
    IN  After(deleted.table, deleted.logged,
              Outcome("delete_habit", name, "", "None", deleted.returned,
                      <<>>, <<>>))

\* HabitController.delete_habit
controller_delete_habit(table, logged, name) ==
    LET deleted == delete_habit(table, logged, strip(name))
    IN  After(deleted.table, deleted.logged,
              [deleted.out EXCEPT !.op = "controller.delete_habit",
                                  !.name = name])

\* INSERT INTO completions (habit_name, completion_time)
log_completion_db(table, logged, habit_name, completion_time) ==
    IF Len(get_habit_db(table, habit_name)) = 0
    THEN [raised |-> "QueryError", logged |-> logged]
    ELSE [raised |-> "None",
          logged |-> [n \in DOMAIN logged \cup {habit_name} |->
                         IF n = habit_name
                         THEN Append(get(logged, n, <<>>), completion_time)
                         ELSE logged[n]]]

\* a log_completion that does not look the habit up first
log_completion_unchecked(table, logged, habit_name, completion_time) ==
    After(table,
          [n \in DOMAIN logged \cup {habit_name} |->
              IF n = habit_name
              THEN Append(get(logged, n, <<>>), completion_time)
              ELSE logged[n]],
          Outcome("log_completion", habit_name, "", "None", "True", <<>>, <<>>))

\* DataManager.log_completion
log_completion(table, logged, habit_name, completion_time) ==
    IF Len(get_habit(table, habit_name)) = 0 THEN
        After(table, logged,
              Outcome("log_completion", habit_name, "", "HabitNotFoundError", "",
                      <<>>, <<>>))
    ELSE LET written == log_completion_db(table, logged, habit_name,
                                          completion_time)
         IN  IF written.raised # "None"
             THEN After(table, logged,
                        Outcome("log_completion", habit_name, "",
                                written.raised, "", <<>>, <<>>))
             ELSE After(table, written.logged,
                        Outcome("log_completion", habit_name, "", "None",
                                "True", <<>>, <<>>))

\* HabitController.mark_habit_done, at the instant now
mark_habit_done(table, logged, name, now) ==
    LET marked == log_completion(table, logged, strip(name), now)
    IN  After(marked.table, marked.logged,
              [marked.out EXCEPT !.op = "mark_habit_done", !.name = name])

\* DataManager.get_completions
manager_get_completions(table, logged, habit_name) ==
    IF Len(get_habit(table, habit_name)) = 0
    THEN Raise("HabitNotFoundError")
    ELSE Return(get_completions(logged, habit_name))

\* a view that reads the completions without the row inserted last
view_habit_streak_stale(table, logged, name, tday) ==
    IF Len(get_habit(table, strip(name))) = 0 THEN
        After(table, logged,
              Outcome("view_habit_streak", name, "", "HabitNotFoundError", "",
                      <<>>, <<>>))
    ELSE LET habit == get_habit(table, strip(name))[1]
             rows == get(logged, strip(name), <<>>)
             stale == IF Len(rows) = 0 THEN rows
                      ELSE SubSeq(rows, 1, Len(rows) - 1)
             stored == get_completions_db(stale, <<>>)
         IN  After(table, logged,
                   Outcome("view_habit_streak", name, habit.schedule, "None",
                           "Text", <<habit>>,
                           <<get_current_streak_for_habit(habit, stored, tday).value,
                             get_longest_streak_for_habit(habit, stored).value>>))

\* HabitController.view_habit_streak: the habit and the two streaks its
\* text shows
view_habit_streak(table, logged, name, tday) ==
    IF Len(get_habit(table, strip(name))) = 0 THEN
        After(table, logged,
              Outcome("view_habit_streak", name, "", "HabitNotFoundError", "",
                      <<>>, <<>>))
    ELSE LET habit == get_habit(table, strip(name))[1]
             stored == manager_get_completions(table, logged, strip(name))
             current_streak ==
                 get_current_streak_for_habit(habit, stored.value, tday)
             longest_streak ==
                 get_longest_streak_for_habit(habit, stored.value)
         IN  IF current_streak.raised # "None" THEN
                 After(table, logged,
                       Outcome("view_habit_streak", name, habit.schedule,
                               current_streak.raised, "", <<>>, <<>>))
             ELSE IF longest_streak.raised # "None" THEN
                 After(table, logged,
                       Outcome("view_habit_streak", name, habit.schedule,
                               longest_streak.raised, "", <<>>, <<>>))
             ELSE
                 After(table, logged,
                       Outcome("view_habit_streak", name, habit.schedule, "None",
                               "Text", <<habit>>,
                               <<current_streak.value, longest_streak.value>>))

\* analytics.get_habits_by_periodicity: a warning is printed and an empty
\* list returned for a schedule that is neither daily nor weekly
get_habits_by_periodicity(habits, sched) ==
    LET Matches(h) == h.schedule = sched
    IN  IF sched # "daily" /\ sched # "weekly"
        THEN Outcome("get_habits_by_periodicity", <<>>, sched, "None", "List",
                     <<>>, <<>>)
        ELSE Outcome("get_habits_by_periodicity", <<>>, sched, "None", "List",
                     SelectSeq(habits, Matches), <<>>)

(***************************************************************************)
(* The inputs.                                                             *)
(***************************************************************************)
\* the Monday the weekly test starts from, 2 January 2023
base_date == Date(2023, 1, 2)

FirstDay == base_date - DaysBefore
LastDay == base_date + DaysAfter
Window == FirstDay..LastDay

\* the time of day the tests give every completion, 12:00
Noon == SlotsPerDay \div 2
AtNoon(ord) == ord * SlotsPerDay + Noon

\* every instant of the dates around base_date
DenseInstants ==
    {ord * SlotsPerDay + slot :
        ord \in (base_date - DenseRadius)..(base_date + DenseRadius),
        slot \in 0..(SlotsPerDay - 1)}

\* the noon of every date of the window
NoonInstants == {AtNoon(ord) : ord \in Window}

\* whether a list is in the order get_completions_db returns (ORDER BY
\* completion_time DESC), one completion at noon per date
Stored(list) ==
    /\ \A i \in DOMAIN list : list[i] \in NoonInstants
    /\ \A i \in 1..(Len(list) - 1) : list[i] > list[i + 1]

\* the first n completions of the weekly test:
\*   [combine(base_date + timedelta(weeks=i), time(12, 0)) for i in range(n)]
weekly_completions(n) == [i \in 1..n |-> AtNoon(base_date + 7 * (i - 1))]

\* the Sunday the longest-streak test starts from, 1 January 2023
streak_base == Date(2023, 1, 1)

\* the first n completions of that test's list streak1 + streak2: a run of 3
\* days from streak_base, then a run of 5 days from its tenth day on
all_completions(n) ==
    [i \in 1..n |->
        AtNoon(streak_base + (IF i <= 3 THEN i - 1 ELSE 10 + (i - 4)))]

\* list.pop(i), i counted from 0: the list without that item
pop(list, i) == SubSeq(list, 1, i) \o SubSeq(list, i + 2, Len(list))

\* the evaluation dates, datetime.date.today(): base_date, with the window's
\* later dates in its future, and the eighth day after the last Monday of
\* the weekly test (31 January 2023)
Todays == {base_date, base_date + 7 * NumWeeks + 1}

Schedules == {"daily", "weekly"}

\* the habit the streaks are computed for
TheHabit == [name |-> "Test", description |-> "", schedule |-> schedule]

\* view_longest_streak_all before it is called
NotAnswered ==
    [raised |-> "NotCalled", text |-> "", max_streak |-> 0, best_habits |-> <<>>]

\* no operation on the stored habits yet
NoOutcome ==
    [op |-> "nothing", name |-> <<>>, schedule |-> "", raised |-> "NotCalled",
     returned |-> "", found |-> <<>>, streaks |-> <<>>]

\* no habit created, no completion logged, no analysis called
NothingAnalysed ==
    /\ outcome = NoOutcome
    /\ all_habits = <<>>
    /\ completions_of = [n \in {} |-> <<>>]
    /\ period = <<None, None>>
    /\ struggling = <<>>
    /\ best = NotAnswered
    /\ called = "nothing"

Init ==
    /\ completions = <<>>
    /\ schedule \in Schedules
    /\ today \in Todays
    /\ current = NotCalled
    /\ longest = NotCalled
    /\ NothingAnalysed

\* the caller puts one more completion on the list, in any order and at any
\* time of day of the dates around base_date ...
AppendAny ==
    /\ current = NotCalled
    /\ Len(completions) < MaxLen
    /\ \A i \in DOMAIN completions : completions[i] \in DenseInstants
    /\ \E instant \in DenseInstants :
           completions' = Append(completions, instant)
    /\ UNCHANGED <<schedule, today, current, longest>>
    /\ UNCHANGED <<analysis, outcome>>

\* ... or one more completion of an earlier date of the window, as stored ...
AppendStored ==
    /\ current = NotCalled
    /\ Len(completions) < MaxDates
    /\ Stored(completions)
    /\ \E instant \in NoonInstants :
           /\ Stored(Append(completions, instant))
           /\ completions' = Append(completions, instant)
    /\ UNCHANGED <<schedule, today, current, longest>>
    /\ UNCHANGED <<analysis, outcome>>

\* ... or the next Monday of the weekly test ...
AppendWeek ==
    /\ current = NotCalled
    /\ Len(completions) < NumWeeks
    /\ completions = weekly_completions(Len(completions))
    /\ completions' = weekly_completions(Len(completions) + 1)
    /\ UNCHANGED <<schedule, today, current, longest>>
    /\ UNCHANGED <<analysis, outcome>>

\* ... with that test's broken_weekly.pop(2) ...
PopWeek ==
    /\ current = NotCalled
    /\ completions = weekly_completions(NumWeeks)
    /\ completions' = pop(completions, 2)
    /\ UNCHANGED <<schedule, today, current, longest>>
    /\ UNCHANGED <<analysis, outcome>>

\* ... or the next completion of the two runs of the longest-streak test
AppendRuns ==
    /\ current = NotCalled
    /\ Len(completions) < 3 + 5
    /\ completions = all_completions(Len(completions))
    /\ completions' = all_completions(Len(completions) + 1)
    /\ UNCHANGED <<schedule, today, current, longest>>
    /\ UNCHANGED <<analysis, outcome>>

\* analytics.get_current_streak_for_habit(habit, completions)
CurrentStreak ==
    /\ current = NotCalled
    /\ current' = get_current_streak_for_habit(TheHabit, completions, today)
    /\ UNCHANGED <<completions, schedule, today, longest>>
    /\ UNCHANGED <<analysis, outcome>>

\* analytics.get_longest_streak_for_habit(habit, completions)
LongestStreak ==
    /\ current # NotCalled
    /\ longest = NotCalled
    /\ longest' = get_longest_streak_for_habit(TheHabit, completions)
    /\ UNCHANGED <<completions, schedule, today, current>>
    /\ UNCHANGED <<analysis, outcome>>

Next ==
    \/ AppendAny
    \/ AppendStored
    \/ AppendWeek
    \/ PopWeek
    \/ AppendRuns
    \/ CurrentStreak
    \/ LongestStreak

Spec == Init /\ [][Next]_vars

(***************************************************************************)
(* The same calls on lists that take their unordered part from three days  *)
(* only: the lists the claims about duplicates and about the order of the  *)
(* completions are checked on.                                             *)
(***************************************************************************)
\* every time of day of base_date, of the day before and of the day after
NearInstants ==
    {ord * SlotsPerDay + slot :
        ord \in {base_date - 1, base_date, base_date + 1},
        slot \in 0..(SlotsPerDay - 1)}

\* the caller puts one more completion on the list, in any order and at any
\* time of these three days
AppendNear ==
    /\ current = NotCalled
    /\ Len(completions) < MaxLen
    /\ \A i \in DOMAIN completions : completions[i] \in NearInstants
    /\ \E instant \in NearInstants :
           completions' = Append(completions, instant)
    /\ UNCHANGED <<schedule, today, current, longest>>
    /\ UNCHANGED <<analysis, outcome>>

NextOrder ==
    \/ AppendNear
    \/ AppendStored
    \/ AppendWeek
    \/ PopWeek
    \/ AppendRuns
    \/ CurrentStreak
    \/ LongestStreak

SpecOrder == Init /\ [][NextOrder]_vars

(***************************************************************************)
(* The analyses of all habits: find_struggling_habits and                  *)
(* view_longest_streak_all, called on habits and completions built up one  *)
(* by one or taken from the tests.                                         *)
(***************************************************************************)
\* the habits of test_find_struggling_habits
Daily1 == [name |-> "Daily1", description |-> "", schedule |-> "daily"]
Daily2 == [name |-> "Daily2", description |-> "", schedule |-> "daily"]
Weekly1 == [name |-> "Weekly1", description |-> "", schedule |-> "weekly"]
TestHabits == {Daily1, Daily2, Weekly1}

\* datetime.combine(today - timedelta(days=n), time(12, 0))
NoonDaysAgo(n) == AtNoon(today - n)

daily1_completions == <<NoonDaysAgo(1), NoonDaysAgo(5), NoonDaysAgo(9)>>
daily2_completions == [i \in 1..10 |-> NoonDaysAgo(i - 1)]
weekly1_completions == <<NoonDaysAgo(7)>>

\* the habits and completions of test_controller_view_longest_streak_all
MorningRun == [name |-> "Morning Run", description |-> "Daily exercise", schedule |-> "daily"]
ReadBook == [name |-> "Read Book", description |-> "Daily reading", schedule |-> "daily"]
morning_run_completions == [i \in 1..5 |-> NoonDaysAgo(i - 1)]
read_book_completions == [i \in 1..3 |-> NoonDaysAgo(i - 1)]

\* every time of day of today and of yesterday
LogInstants ==
    {d * SlotsPerDay + slot : d \in {today - 1, today}, slot \in 0..(SlotsPerDay - 1)}

\* the completions logged so far, over all habits
RECURSIVE CountLogged(_)
CountLogged(names) ==
    IF names = {} THEN 0
    ELSE LET n == CHOOSE m \in names : TRUE
         IN  Len(completions_of[n]) + CountLogged(names \ {n})

\* the periods find_struggling_habits is called with: none given, only the
\* end given, the last 1 to MaxDays days, and the period of the test
CallPeriods ==
    {<<None, None>>, <<None, Some(today - 1)>>} \cup
    {<<Some(today - (n - 1)), Some(today)>> : n \in 1..MaxDays} \cup
    {<<Some(today - 10), Some(today)>>}

InitAnalysis ==
    /\ completions = <<>>
    /\ schedule = "daily"
    /\ today \in Todays
    /\ current = NotCalled
    /\ longest = NotCalled
    /\ NothingAnalysed

\* one more habit, not yet on the list
AddHabit ==
    /\ called = "nothing"
    /\ Len(all_habits) < MaxHabits
    /\ \E habit \in TestHabits :
           /\ \A i \in DOMAIN all_habits : all_habits[i].name # habit.name
           /\ all_habits' = Append(all_habits, habit)
    /\ UNCHANGED <<completions, schedule, today, current, longest, outcome>>
    /\ UNCHANGED <<completions_of, period, struggling, best, called>>

\* one more completion of a habit of the list, at any time of today or of
\* yesterday
LogCompletion ==
    /\ called = "nothing"
    /\ CountLogged(DOMAIN completions_of) < MaxLogged
    /\ \E i \in DOMAIN all_habits, completion_time \in LogInstants :
           LET habit_name == all_habits[i].name
           IN  completions_of' =
                   [n \in DOMAIN completions_of \cup {habit_name} |->
                       IF n = habit_name
                       THEN Append(get(completions_of, n, <<>>), completion_time)
                       ELSE completions_of[n]]
    /\ UNCHANGED <<completions, schedule, today, current, longest, outcome>>
    /\ UNCHANGED <<all_habits, period, struggling, best, called>>

\* the habits and the completions of test_find_struggling_habits
StrugglingTest ==
    /\ called = "nothing"
    /\ all_habits = <<>>
    /\ all_habits' = <<Daily1, Daily2, Weekly1>>
    /\ completions_of' =
           [n \in {"Daily1", "Daily2", "Weekly1"} |->
               IF n = "Daily1" THEN daily1_completions
               ELSE IF n = "Daily2" THEN daily2_completions
               ELSE weekly1_completions]
    /\ UNCHANGED <<completions, schedule, today, current, longest, outcome>>
    /\ UNCHANGED <<period, struggling, best, called>>

\* the habits and the completions of test_controller_view_longest_streak_all
StreakTest ==
    /\ called = "nothing"
    /\ all_habits = <<>>
    /\ all_habits' = <<MorningRun, ReadBook>>
    /\ completions_of' =
           [n \in {"Morning Run", "Read Book"} |->
               IF n = "Morning Run" THEN morning_run_completions
               ELSE read_book_completions]
    /\ UNCHANGED <<completions, schedule, today, current, longest, outcome>>
    /\ UNCHANGED <<period, struggling, best, called>>

FindStruggling ==
    /\ called = "nothing"
    /\ \E given \in CallPeriods :
           /\ period' = given
           /\ struggling' = find_struggling_habits(all_habits, completions_of,
                                                   given[1], given[2], today)
    /\ called' = "find_struggling_habits"
    /\ UNCHANGED <<completions, schedule, today, current, longest, outcome>>
    /\ UNCHANGED <<all_habits, completions_of, best>>

ViewLongestStreakAll ==
    /\ called = "nothing"
    /\ best' = view_longest_streak_all(all_habits, completions_of)
    /\ called' = "view_longest_streak_all"
    /\ UNCHANGED <<completions, schedule, today, current, longest, outcome>>
    /\ UNCHANGED <<all_habits, completions_of, period, struggling>>

NextAnalysis ==
    \/ AddHabit
    \/ LogCompletion
    \/ StrugglingTest
    \/ StreakTest
    \/ FindStruggling
    \/ ViewLongestStreakAll

SpecAnalysis == InitAnalysis /\ [][NextAnalysis]_vars

(***************************************************************************)
(* The operations on the stored habits, called one after another in any    *)
(* order: add_habit, delete_habit, log_completion and get_completions of   *)
(* the DataManager, mark_habit_done, delete_habit and view_habit_streak    *)
(* of the HabitController, and get_habits_by_periodicity over the stored   *)
(* habits.                                                                 *)
(***************************************************************************)
\* the name of test_add_duplicate_habit, the same name in lower case and
\* the same name between spaces
Unique == <<"U", "n", "i", "q", "u", "e">>
unique == <<"u", "n", "i", "q", "u", "e">>
Padded == <<" ">> \o Unique \o <<" ">>
ArgNames == {Unique, unique, Padded}

\* the name of the habit of test_controller_view_habit_streak
MorningRunName == <<"M", "o", "r", "n", "i", "n", "g", " ", "R", "u", "n">>

\* the names a habit is deleted by
DeleteNames == ArgNames \cup {MorningRunName}

Row(name, description, sched) ==
    [name |-> name, description |-> description, schedule |-> sched]

\* the habits add_habit is called with: the two of test_add_duplicate_habit,
\* which differ in description and schedule only, one whose name differs
\* in case only, one whose name differs in the spaces around it only, the
\* empty name, a name of whitespace only, and a schedule that is neither
\* daily nor weekly
NewHabits ==
    {Row(Unique, "Test", "daily"),
     Row(Unique, "Another desc", "weekly"),
     Row(unique, "Test", "weekly"),
     Row(Padded, "", "daily"),
     Row(<<>>, "Test", "daily"),
     Row(<<" ">>, "Test", "daily"),
     Row(Unique, "Test", "monthly")}

\* datetime.datetime.now()
now == AtNoon(today)

\* the times a completion is logged with
LogTimes == {NoonDaysAgo(1), NoonDaysAgo(0)}

RECURSIVE count_rows(_, _)
count_rows(logged, names) ==
    IF names = {} THEN 0
    ELSE LET n == CHOOSE m \in names : TRUE
         IN  Len(logged[n]) + count_rows(logged, names \ {n})

InitStore ==
    /\ completions = <<>>
    /\ schedule = "daily"
    /\ today = base_date
    /\ current = NotCalled
    /\ longest = NotCalled
    /\ NothingAnalysed

\* what an operation leaves behind
Leaves(after) ==
    /\ Len(after.table) <= MaxStored
    /\ \/ after.logged = completions_of
       \/ count_rows(after.logged, DOMAIN after.logged \ {MorningRunName})
              <= MaxMarks
    /\ all_habits' = after.table
    /\ completions_of' = after.logged
    /\ outcome' = after.out

ManagerAddHabit ==
    /\ \E new \in NewHabits :
           Leaves(add_habit(all_habits, completions_of, new.name,
                            new.description, new.schedule))
    /\ UNCHANGED <<completions, schedule, today, current, longest>>
    /\ UNCHANGED <<period, struggling, best, called>>

ManagerDeleteHabit ==
    /\ \E name \in DeleteNames :
           Leaves(delete_habit(all_habits, completions_of, name))
    /\ UNCHANGED <<completions, schedule, today, current, longest>>
    /\ UNCHANGED <<period, struggling, best, called>>

ControllerDeleteHabit ==
    /\ \E name \in DeleteNames :
           Leaves(controller_delete_habit(all_habits, completions_of, name))
    /\ UNCHANGED <<completions, schedule, today, current, longest>>
    /\ UNCHANGED <<period, struggling, best, called>>

ManagerLogCompletion ==
    /\ \E habit_name \in ArgNames, completion_time \in LogTimes :
           Leaves(log_completion(all_habits, completions_of, habit_name,
                                 completion_time))
    /\ UNCHANGED <<completions, schedule, today, current, longest>>
    /\ UNCHANGED <<period, struggling, best, called>>

MarkHabitDone ==
    /\ \E name \in ArgNames :
           Leaves(mark_habit_done(all_habits, completions_of, name, now))
    /\ UNCHANGED <<completions, schedule, today, current, longest>>
    /\ UNCHANGED <<period, struggling, best, called>>

ViewHabitStreak ==
    /\ \E name \in ArgNames :
           Leaves(view_habit_streak(all_habits, completions_of, name, today))
    /\ UNCHANGED <<completions, schedule, today, current, longest>>
    /\ UNCHANGED <<period, struggling, best, called>>

GetHabitsByPeriodicity ==
    /\ \E sched \in {"daily", "weekly", "monthly"} :
           Leaves(After(all_habits, completions_of,
                        get_habits_by_periodicity(get_all_habits(all_habits),
                                                  sched)))
    /\ UNCHANGED <<completions, schedule, today, current, longest>>
    /\ UNCHANGED <<period, struggling, best, called>>

\* test_controller_view_habit_streak: a daily habit marked done at noon of
\* today and of the four days before, then viewed
ViewHabitStreakTest ==
    /\ all_habits = <<>>
    /\ LET table == <<[name |-> MorningRunName, description |-> "Daily exercise",
                       schedule |-> "daily"]>>
           logged == [n \in {MorningRunName} |-> morning_run_completions]
           after == view_habit_streak(table, logged, MorningRunName, today)
       IN  /\ all_habits' = after.table
           /\ completions_of' = after.logged
           /\ outcome' = after.out
    /\ UNCHANGED <<completions, schedule, today, current, longest>>
    /\ UNCHANGED <<period, struggling, best, called>>

NextStore ==
    \/ ManagerAddHabit
    \/ ManagerDeleteHabit
    \/ ControllerDeleteHabit
    \/ ManagerLogCompletion
    \/ MarkHabitDone
    \/ ViewHabitStreak
    \/ GetHabitsByPeriodicity
    \/ ViewHabitStreakTest

SpecStore == InitStore /\ [][NextStore]_vars

(***************************************************************************)
(* What the streaks are claimed to be, stated on the set of completion     *)
(* dates and on numeric <<year, week>> buckets, without lists or strings.  *)
(***************************************************************************)
Dates == just_dates(completions)

MostRecent == CHOOSE d \in Dates : \A e \in Dates : e <= d

\* the length of the run of consecutive days of S that ends at d
RunEndingAt(S, d) ==
    CHOOSE k \in 1..Cardinality(S) :
        /\ \A j \in 0..(k - 1) : (d - j) \in S
        /\ (d - k) \notin S

LongestRun(S) ==
    CHOOSE k \in 1..Cardinality(S) :
        /\ \E d \in S : RunEndingAt(S, d) = k
        /\ \A d \in S : RunEndingAt(S, d) <= k

Year(ord) == YearAndDay(ord)[1]

Bucket(ord) == <<Year(ord), WeekOfYear(ord)>>

Buckets == {Bucket(d) : d \in Dates}

\* the length of the run of weeks of one year, in B, that ends at week b
WeekRunEndingAt(B, b) ==
    CHOOSE k \in 1..Cardinality(B) :
        /\ \A j \in 0..(k - 1) : <<b[1], b[2] - j>> \in B
        /\ <<b[1], b[2] - k>> \notin B

LongestWeekRun(B) ==
    CHOOSE k \in 1..Cardinality(B) :
        /\ \E b \in B : WeekRunEndingAt(B, b) = k
        /\ \A b \in B : WeekRunEndingAt(B, b) <= k

CurrentCalled == current # NotCalled
LongestCalled == longest # NotCalled

(***************************************************************************)
(* C1: for a daily habit whose most recent completion date d is today or   *)
(* yesterday, the current streak is the length of the run of consecutive   *)
(* days that ends at d.                                                    *)
(***************************************************************************)
C1_DailyCurrentIsRun ==
    (/\ schedule = "daily"
     /\ CurrentCalled
     /\ Dates # {}
     /\ MostRecent \in {today, today - 1})
    => current = Return(RunEndingAt(Dates, MostRecent))

\* yesterday, two and three days ago are completed, five days ago too, and
\* today is not: the streak is 3
C1_Witness ==
    /\ schedule = "daily"
    /\ Dates = {today - 1, today - 2, today - 3, today - 5}
    /\ current = Return(3)

(***************************************************************************)
(* C2: for a daily habit whose most recent completion date is older than   *)
(* yesterday, the current streak is 0, however long the past run was.      *)
(***************************************************************************)
C2_DailyLapsed ==
    (/\ schedule = "daily"
     /\ CurrentCalled
     /\ Dates # {}
     /\ MostRecent < today - 1)
    => current = Return(0)

C2_Witness ==
    /\ schedule = "daily"
    /\ Dates # {}
    /\ MostRecent = today - 2
    /\ RunEndingAt(Dates, MostRecent) = 5
    /\ current = Return(0)

(***************************************************************************)
(* C3: a weekly habit completed on four Mondays in a row has current       *)
(* streak 4, and 2 with the third Monday removed, whatever the evaluation  *)
(* date.                                                                   *)
(***************************************************************************)
C3_FourMondays ==
    (schedule = "weekly" /\ CurrentCalled)
    => /\ completions = weekly_completions(NumWeeks) => current = Return(4)
       /\ completions = pop(weekly_completions(NumWeeks), 2) => current = Return(2)

(***************************************************************************)
(* C4: for a weekly habit the current streak is 0 when the most recent     *)
(* completion date is more than 7 days before today, and at least 1 when   *)
(* it is at most 7 days before today.                                      *)
(***************************************************************************)
C4_WeeklySevenDays ==
    (schedule = "weekly" /\ CurrentCalled /\ Dates # {})
    => /\ today - MostRecent > 7 => current = Return(0)
       /\ today - MostRecent <= 7 => current.raised = "None" /\ current.value >= 1

\* a completion exactly 7 days ago, an older one, and a live streak
C4_Witness ==
    /\ schedule = "weekly"
    /\ Dates # {}
    /\ today - MostRecent = 7
    /\ Cardinality(Dates) = 2
    /\ current = Return(2)

(***************************************************************************)
(* C5: the weekly current streak, when it is alive, is the length of the   *)
(* run of weeks of the most recent completion's year that ends at its      *)
(* week: two buckets are consecutive only within one year and one week     *)
(* apart, and no bucket of another year is counted.                        *)
(***************************************************************************)
C5_WeeklyCurrentSameYear ==
    (/\ schedule = "weekly"
     /\ CurrentCalled
     /\ Dates # {}
     /\ today - MostRecent <= 7)
    => /\ current = Return(WeekRunEndingAt(Buckets, Bucket(MostRecent)))
       /\ current.value <=
              Cardinality({b \in Buckets : b[1] = Year(MostRecent)})

\* weeks 51 and 52 of 2022 and weeks 0 and 1 of 2023 are all completed: the
\* streak stops at the change of year
C5_Witness ==
    /\ schedule = "weekly"
    /\ Cardinality(Buckets) = 4
    /\ \E b \in Buckets : b[1] # Year(MostRecent)
    /\ Bucket(MostRecent)[2] = 1
    /\ current = Return(2)

(***************************************************************************)
(* C6: for a daily habit the longest streak is the length of the longest   *)
(* run of consecutive days among the completion dates, wherever it lies    *)
(* and whatever the evaluation date.                                       *)
(***************************************************************************)
C6_DailyLongestIsLongestRun ==
    (schedule = "daily" /\ LongestCalled /\ Dates # {})
    => longest = Return(LongestRun(Dates))

\* the test's two runs, at day offsets 0..2 and 10..14: the longest is 5
C6_Witness ==
    /\ schedule = "daily"
    /\ completions = all_completions(3 + 5)
    /\ Dates = {streak_base + i : i \in (0..2) \cup (10..14)}
    /\ longest = Return(5)

(***************************************************************************)
(* C7: for a weekly habit the longest streak is the length of the longest  *)
(* run of week buckets of one year whose week numbers go up by one: a run  *)
(* is split at every gap and at every change of year.                      *)
(***************************************************************************)
C7_WeeklyLongestIsLongestRun ==
    (schedule = "weekly" /\ LongestCalled /\ Dates # {})
    => longest = Return(LongestWeekRun(Buckets))

\* four calendar weeks in a row across the change of year count as 2
C7_Witness ==
    /\ schedule = "weekly"
    /\ Cardinality(Buckets) = 4
    /\ \E b \in Buckets : b[1] # Year(MostRecent)
    /\ longest = Return(2)

(***************************************************************************)
(* C8: with no completion both streaks are 0, and with completions on one  *)
(* date only the longest streak is 1, for either cadence.                  *)
(***************************************************************************)
C8_EmptyAndSingle ==
    /\ (CurrentCalled /\ completions = <<>>) => current = Return(0)
    /\ (LongestCalled /\ completions = <<>>) => longest = Return(0)
    /\ (LongestCalled /\ Cardinality(Dates) = 1) => longest = Return(1)

\* three completions on one date
C8_Witness ==
    /\ Len(completions) = 3
    /\ Cardinality(Dates) = 1
    /\ longest = Return(1)

(***************************************************************************)
(* C9: for a daily habit whose most recent completion date is today, the   *)
(* longest streak is at least the current streak.                          *)
(***************************************************************************)
C9_DailyLongestAtLeastCurrent ==
    (/\ schedule = "daily"
     /\ LongestCalled
     /\ Dates # {}
     /\ MostRecent = today)
    => /\ current.raised = "None"
       /\ longest.raised = "None"
       /\ longest.value >= current.value

C9_Witness ==
    /\ schedule = "daily"
    /\ Dates # {}
    /\ MostRecent = today
    /\ current = Return(2)
    /\ longest = Return(3)

(***************************************************************************)
(* C10: both streaks return, without raising, a non-negative integer for   *)
(* every completion list and both cadences.                                *)
(***************************************************************************)
C10_NeverRaiseNonNegative ==
    /\ CurrentCalled => current.raised = "None" /\ current.value \in Nat
    /\ LongestCalled => longest.raised = "None" /\ longest.value \in Nat

\* a list out of order with two completions on one date and one after today
C10_Witness ==
    /\ LongestCalled
    /\ Len(completions) = 3
    /\ Cardinality(Dates) = 2
    /\ MostRecent > today
    /\ completions[1] < completions[3]
    /\ completions[3] < completions[2]

(***************************************************************************)
(* C11: adding a further completion, at any time of day, on a calendar     *)
(* date that already has a completion changes neither the current nor the  *)
(* longest streak, for both cadences.                                      *)
(***************************************************************************)
\* every time of day of the dates that already have a completion
SameDateInstants ==
    {d * SlotsPerDay + slot : d \in Dates, slot \in 0..(SlotsPerDay - 1)}

C11_DuplicateChangesNothing ==
    LongestCalled =>
        \A again \in SameDateInstants :
            LET more == Append(completions, again)
            IN  /\ get_current_streak_for_habit(TheHabit, more, today) = current
                /\ get_longest_streak_for_habit(TheHabit, more) = longest

\* both streaks are 2 on a list that already holds one date twice, at two
\* times of day
C11_Witness ==
    /\ LongestCalled
    /\ current = Return(2)
    /\ longest = Return(2)
    /\ \E i, j \in DOMAIN completions :
           /\ completions[i] # completions[j]
           /\ date(completions[i]) = date(completions[j])

(***************************************************************************)
(* C12: the current streak, the longest streak and the missed count of     *)
(* find_struggling_habits depend only on the multiset of the completion    *)
(* instants: every permutation of the habit's completion list gives the    *)
(* same three results.                                                     *)
(***************************************************************************)
\* the list reversed and the list with any two of its entries exchanged.
\* Exchanges generate every permutation, and with a list AppendNear builds
\* every reordering of it is built as well, so that holding for these in
\* every state is holding for every permutation of those lists.
Reorderings(list) ==
    {Reversed(list)} \cup
    {[list EXCEPT ![i] = list[j], ![j] = list[i]] : i, j \in DOMAIN list}

\* the periods the missed count is compared over: the default one, base_date
\* alone, and base_date with the day before
Periods ==
    {<<None, None>>,
     <<Some(base_date), Some(base_date)>>,
     <<Some(base_date - 1), Some(base_date)>>}

\* the report for the one habit with the list as its entry of the map
ReportOf(list, asked) ==
    find_struggling_habits(<<TheHabit>>, [n \in {TheHabit.name} |-> list],
                           asked[1], asked[2], today)

C12_OrderIrrelevant ==
    LongestCalled =>
        /\ \A other \in Reorderings(completions) :
               /\ get_current_streak_for_habit(TheHabit, other, today) = current
               /\ get_longest_streak_for_habit(TheHabit, other) = longest
        /\ \A asked \in Periods :
               LET report == ReportOf(completions, asked)
               IN  \A other \in Reorderings(completions) :
                       ReportOf(other, asked) = report

\* a list that is not in the order the sort gives it (an older date before
\* a newer one) with a current and a longest streak of 2 or more
C12_Witness ==
    /\ LongestCalled
    /\ current.value >= 2
    /\ longest.value >= 2
    /\ \E i, j \in DOMAIN completions :
           i < j /\ date(completions[i]) < date(completions[j])

(***************************************************************************)
(* What the claims about the analyses of all habits are stated over.       *)
(***************************************************************************)
FindCalled == called = "find_struggling_habits"
ViewCalled == called = "view_longest_streak_all"

\* both ends of the period were given to the call
PeriodGiven == period[1] # None /\ period[2] # None
WindowStart == period[1][1]
WindowEnd == period[2][1]
DaysInWindow == WindowEnd - WindowStart + 1

\* the completions logged for a name, none when the map has no entry
LoggedFor(habit_name) ==
    IF habit_name \in DOMAIN completions_of THEN completions_of[habit_name] ELSE <<>>

\* the number of completions of the habit dated inside the window
Actual(habit_name) ==
    Cardinality({i \in DOMAIN LoggedFor(habit_name) :
                    date(LoggedFor(habit_name)[i]) \in WindowStart..WindowEnd})

\* the missed count the report gives for a name
Reported(habit_name) ==
    {struggling[k][2] : k \in {j \in DOMAIN struggling : struggling[j][1] = habit_name}}

AtLeastZero(n) == IF n < 0 THEN 0 ELSE n

C14_WeeklyExpected ==
    (FindCalled /\ PeriodGiven) =>
        \A i \in DOMAIN all_habits :
            all_habits[i].schedule = "weekly" =>
                Reported(all_habits[i].name) =
                    {AtLeastZero(((DaysInWindow \div 7) + 1) - Actual(all_habits[i].name))}

\* a weekly habit without completions over a window of exactly 7 days:
\* 2 expected, 2 missed
C14_Witness ==
    /\ FindCalled
    /\ PeriodGiven
    /\ DaysInWindow = 7
    /\ \E i \in DOMAIN all_habits :
           /\ all_habits[i].schedule = "weekly"
           /\ Actual(all_habits[i].name) = 0
           /\ Reported(all_habits[i].name) = {2}

(***************************************************************************)
(* C15: called without a period, find_struggling_habits looks at the 30    *)
(* days ending today, so a daily habit without completions is reported     *)
(* with 30 missed.                                                         *)
(***************************************************************************)
C15_DefaultThirtyDays ==
    (FindCalled /\ period = <<None, None>>) =>
        \A i \in DOMAIN all_habits :
            (all_habits[i].schedule = "daily" /\ LoggedFor(all_habits[i].name) = <<>>) =>
                Reported(all_habits[i].name) = {30}

(***************************************************************************)
(* C16: called with period_start = today - 10 days and period_end = today, *)
(* find_struggling_habits reports 7 missed for a daily habit with 3        *)
(* completions in the window, and 0 missed for a daily habit completed     *)
(* once on each of the 10 days today-9 .. today, which it ranks after      *)
(* every habit with a positive missed count.                               *)
(***************************************************************************)
\* completed exactly once on each of the 10 days today-9 .. today
OncePerDayOfTen(habit_name) ==
    /\ Len(LoggedFor(habit_name)) = 10
    /\ {date(LoggedFor(habit_name)[k]) : k \in DOMAIN LoggedFor(habit_name)}
           = (today - 9)..today

C16_TenDayTest ==
    (FindCalled /\ period = <<Some(today - 10), Some(today)>>) =>
        \A i \in DOMAIN all_habits :
            all_habits[i].schedule = "daily" =>
                /\ Actual(all_habits[i].name) = 3 =>
                       Reported(all_habits[i].name) = {7}
                /\ OncePerDayOfTen(all_habits[i].name) =>
                       /\ Reported(all_habits[i].name) = {0}
                       /\ \A k, j \in DOMAIN struggling :
                              (struggling[k][1] = all_habits[i].name /\ struggling[j][2] > 0)
                                  => j < k

(***************************************************************************)
(* C17: the report of find_struggling_habits is ordered by missed count,   *)
(* greatest first, and habits with equal missed counts keep the relative   *)
(* order they have in the habit list given to the call.                    *)
(***************************************************************************)
\* where a name stands in the habit list given to the call
PlaceOf(habit_name) ==
    CHOOSE i \in DOMAIN all_habits : all_habits[i].name = habit_name

C17_SortedStable ==
    FindCalled =>
        \A k, j \in DOMAIN struggling :
            k < j =>
                /\ struggling[k][2] >= struggling[j][2]
                /\ struggling[k][2] = struggling[j][2] =>
                       PlaceOf(struggling[k][1]) < PlaceOf(struggling[j][1])

\* three habits: the first and the third of the list tie with a positive
\* missed count and both come before the second, which missed less
C17_Witness ==
    /\ FindCalled
    /\ Len(struggling) = 3
    /\ struggling[1][1] = all_habits[1].name
    /\ struggling[2][1] = all_habits[3].name
    /\ struggling[3][1] = all_habits[2].name
    /\ struggling[1][2] = struggling[2][2]
    /\ struggling[2][2] > struggling[3][2]

(***************************************************************************)
(* C18: the report of find_struggling_habits holds exactly one entry for   *)
(* every habit of the list given to the call, also for a habit that        *)
(* missed nothing and for a habit without an entry in the completions map  *)
(* (counted as no completions).                                            *)
(***************************************************************************)
C18_OneEntryPerHabit ==
    FindCalled =>
        /\ Len(struggling) = Len(all_habits)
        /\ \A i \in DOMAIN all_habits :
               Cardinality({k \in DOMAIN struggling :
                               struggling[k][1] = all_habits[i].name}) = 1
        /\ \A i \in DOMAIN all_habits :
               (PeriodGiven /\ all_habits[i].name \notin DOMAIN completions_of) =>
                   Reported(all_habits[i].name) =
                       {expected_completions(all_habits[i].schedule, DaysInWindow)}

\* a report with a habit that missed nothing and a habit the map has no
\* entry for
C18_Witness ==
    /\ FindCalled
    /\ \E i, j \in DOMAIN all_habits :
           /\ Reported(all_habits[i].name) = {0}
           /\ all_habits[j].name \notin DOMAIN completions_of
           /\ \E missed \in Reported(all_habits[j].name) : missed > 0

(***************************************************************************)
(* C19: in find_struggling_habits several completions of a habit on the    *)
(* same calendar date count as one: a further completion on a date the     *)
(* habit already has a completion on leaves its missed count unchanged.    *)
(***************************************************************************)
\* the map with one more completion logged for the name
WithOneMore(habit_name, again) ==
    [n \in DOMAIN completions_of |->
        IF n = habit_name THEN Append(completions_of[n], again) ELSE completions_of[n]]

\* the missed counts a report gives for a name
ReportedIn(report, habit_name) ==
    {report[k][2] : k \in {j \in DOMAIN report : report[j][1] = habit_name}}

C19_DuplicateCountsOnce ==
    FindCalled =>
        \A i \in DOMAIN all_habits :
            \A k \in DOMAIN LoggedFor(all_habits[i].name) :
                \A slot \in 0..(SlotsPerDay - 1) :
                    LET again == date(LoggedFor(all_habits[i].name)[k]) * SlotsPerDay + slot
                    IN  ReportedIn(find_struggling_habits(
                                       all_habits, WithOneMore(all_habits[i].name, again),
                                       period[1], period[2], today),
                                   all_habits[i].name)
                            = Reported(all_habits[i].name)

(***************************************************************************)
(* C20: view_longest_streak_all reports as max_streak the greatest longest *)
(* streak over all habits, and as winners exactly the habits whose longest *)
(* streak equals it: every tied habit, and no habit with a smaller streak. *)
(***************************************************************************)
\* the longest streak of the i-th habit created
LongestOf(i) ==
    get_longest_streak_for_habit(all_habits[i], LoggedFor(all_habits[i].name)).value

Winners == {best.best_habits[k][1] : k \in DOMAIN best.best_habits}

C20_MaxAndAllTied ==
    (ViewCalled /\ all_habits # <<>>) =>
        /\ best.raised = "None"
        /\ \A i \in DOMAIN all_habits : LongestOf(i) <= best.max_streak
        /\ \E i \in DOMAIN all_habits : LongestOf(i) = best.max_streak
        /\ Winners = {all_habits[i].name : i \in {j \in DOMAIN all_habits :
                                                     LongestOf(j) = best.max_streak}}
        /\ Cardinality(Winners) = Len(best.best_habits)
        /\ \A k \in DOMAIN best.best_habits :
               best.best_habits[k][2] = best.max_streak

\* three habits: two tie with the greatest streak and are both reported,
\* the one created last has a smaller streak and is not
C20_Witness ==
    /\ ViewCalled
    /\ Len(all_habits) = 3
    /\ best.max_streak >= 1
    /\ Len(best.best_habits) = 2
    /\ LongestOf(3) < best.max_streak
    /\ all_habits[3].name \notin Winners

(***************************************************************************)
(* C27: two completion dates of one Monday-to-Sunday calendar week are put *)
(* in the same (year, week number) bucket, the "%Y-%W" key both weekly     *)
(* streaks count periods by, also in a week that holds 1 January.          *)
(***************************************************************************)
\* the Monday of the calendar week of a date
MondayOf(ord) == ord - Weekday(ord)

C27_OneWeekOneBucket ==
    (schedule = "weekly" /\ CurrentCalled) =>
        \A d1, d2 \in Dates :
            MondayOf(d1) = MondayOf(d2) => strftime_Y_W(d1) = strftime_Y_W(d2)

(***************************************************************************)
(* C28: for every completion list and both cadences, whatever the most     *)
(* recent completion date, the longest streak is at least the current one. *)
(***************************************************************************)
C28_LongestAtLeastCurrent ==
    LongestCalled =>
        /\ current.raised = "None"
        /\ longest.raised = "None"
        /\ longest.value >= current.value

\* a daily habit completed tomorrow, yesterday and the day before: the
\* current streak is 1, the longest 2
C28_Witness ==
    /\ schedule = "daily"
    /\ LongestCalled
    /\ Dates # {}
    /\ MostRecent = today + 1
    /\ current = Return(1)
    /\ longest = Return(2)

(***************************************************************************)
(* C29: a positive current streak means a recent completion that is not   *)
(* in the future: the most recent completion date d has                    *)
(* today-1 <= d <= today for a daily and today-7 <= d <= today for a       *)
(* weekly habit.                                                           *)
(***************************************************************************)
C29_PositiveMeansRecentPast ==
    (CurrentCalled /\ current.raised = "None" /\ current.value > 0) =>
        /\ MostRecent <= today
        /\ schedule = "daily" => MostRecent >= today - 1
        /\ schedule = "weekly" => MostRecent >= today - 7

(***************************************************************************)
(* C21: called with no habit stored, view_longest_streak_all answers with  *)
(* the text "No habits defined to calculate streaks.", which carries no    *)
(* streak number, and names no winner; it raises nothing.                  *)
(***************************************************************************)
NumericFrames ==
    {"Longest streak: {name} ({schedule}) with {streak} consecutive completions",
     "Longest streak: {max_streak} completions, shared by: {habit_list}"}

C21_EmptyIsNoData ==
    (ViewCalled /\ all_habits = <<>>) =>
        /\ best.raised = "None"
        /\ best.text = "No habits defined to calculate streaks."
        /\ best.text \notin NumericFrames
        /\ best.best_habits = <<>>

C21_Witness ==
    /\ ViewCalled
    /\ all_habits = <<>>
    /\ best.text = "No habits defined to calculate streaks."

(***************************************************************************)
(* C22: called with a schedule that is neither daily nor weekly,           *)
(* get_habits_by_periodicity raises ValueError and returns nothing.        *)
(***************************************************************************)
C22_InvalidScheduleRaises ==
    (/\ outcome.op = "get_habits_by_periodicity"
     /\ outcome.schedule \notin {"daily", "weekly"}) =>
        /\ outcome.raised = "ValueError"
        /\ outcome.returned = ""

(***************************************************************************)
(* The stored habits and completions, and the call an operation was: what  *)
(* the claims on the operations are stated on.                             *)
(***************************************************************************)
StoredNames == {all_habits[i].name : i \in DOMAIN all_habits}

\* the completions a table holds for a name, none if none was logged
CompletionsIn(logged, name) ==
    IF name \in DOMAIN logged THEN logged[name] ELSE <<>>

CompletionsOf(name) == CompletionsIn(completions_of, name)

\* the step is a call of the operation with this name
Calls(op, name) == outcome'.op = op /\ outcome'.name = name

StoreUnchanged == all_habits' = all_habits /\ completions_of' = completions_of

(***************************************************************************)
(* C23: at most one habit is stored under a name, names that differ in     *)
(* the case of a letter being different names; add_habit of a habit        *)
(* (non-empty name, daily or weekly) whose name is stored raises           *)
(* QueryError and leaves the stored habits, with their descriptions and    *)
(* schedules, and the stored completions as they were.                     *)
(***************************************************************************)
AtMostOnePerName ==
    \A i, j \in DOMAIN all_habits :
        all_habits[i].name = all_habits[j].name => i = j

DuplicateAddFails ==
    \A name \in StoredNames :
        (Calls("add_habit", name) /\ outcome'.schedule \in {"daily", "weekly"}) =>
            /\ outcome'.raised = "QueryError"
            /\ StoreUnchanged

C23_NamesUnique == []AtMostOnePerName /\ [][DuplicateAddFails]_vars

\* "Unique" is added a second time, as a weekly habit, while it is stored
\* as a daily one with a completion, next to the habit "unique"
C23_Witness ==
    /\ outcome.op = "add_habit"
    /\ outcome.name = Unique
    /\ outcome.schedule = "weekly"
    /\ outcome.raised = "QueryError"
    /\ \E i \in DOMAIN all_habits :
           all_habits[i] = Row(Unique, "Test", "daily")
    /\ unique \in StoredNames
    /\ Len(CompletionsOf(Unique)) > 0

(***************************************************************************)
(* C24: DataManager.delete_habit(name) returns True exactly when a habit   *)
(* of that name is stored; the habit is then gone, get_habit(name) finding *)
(* nothing, and the other habits stay as they were.  It returns False      *)
(* when no habit of that name is stored, and then leaves the stored        *)
(* habits and completions as they were.  HabitController.delete_habit      *)
(* does the same for the name without the whitespace around it.            *)
(***************************************************************************)
DeleteContract(looked_up) ==
    /\ outcome'.raised = "None"
    /\ outcome'.returned = "True" <=> looked_up \in StoredNames
    /\ outcome'.returned = "False" <=> looked_up \notin StoredNames
    /\ looked_up \in StoredNames =>
           /\ Len(get_habit(all_habits', looked_up)) = 0
           /\ {all_habits'[i] : i \in DOMAIN all_habits'} =
                  {all_habits[i] : i \in DOMAIN all_habits} \
                      {row \in {all_habits[i] : i \in DOMAIN all_habits} :
                           row.name = looked_up}
    /\ looked_up \notin StoredNames => StoreUnchanged

DeleteReturnsWhetherStored ==
    \A name \in DeleteNames :
        /\ Calls("delete_habit", name) => DeleteContract(name)
        /\ Calls("controller.delete_habit", name) => DeleteContract(strip(name))

C24_DeleteReturnsWhetherStored == [][DeleteReturnsWhetherStored]_vars

\* "Unique" was deleted while "unique" stays stored
C24_Witness ==
    /\ outcome.op = "delete_habit"
    /\ outcome.name = Unique
    /\ outcome.returned = "True"
    /\ Unique \notin StoredNames
    /\ unique \in StoredNames

\* a delete of a name that is not stored, next to a stored habit with a
\* completion
C24_WitnessFalse ==
    /\ outcome.op = "delete_habit"
    /\ outcome.name = Unique
    /\ outcome.returned = "False"
    /\ unique \in StoredNames
    /\ Len(CompletionsOf(unique)) > 0

(***************************************************************************)
(* C25: log_completion for a name under which no habit is stored raises    *)
(* HabitNotFoundError and stores nothing; for the name of a stored habit   *)
(* it returns True and stores exactly one more completion, the one given,  *)
(* for that habit, the completions of the other habits and the habits      *)
(* staying as they were.  mark_habit_done does the same, with the current  *)
(* instant, for the name it looks up: the one given without the            *)
(* whitespace around it.                                                   *)
(***************************************************************************)
LogContract(looked_up, times) ==
    /\ looked_up \notin StoredNames =>
           /\ outcome'.raised = "HabitNotFoundError"
           /\ StoreUnchanged
    /\ looked_up \in StoredNames =>
           /\ outcome'.raised = "None"
           /\ outcome'.returned = "True"
           /\ all_habits' = all_habits
           /\ \E t \in times :
                  CompletionsIn(completions_of', looked_up) =
                      Append(CompletionsOf(looked_up), t)
           /\ \A other \in (DOMAIN completions_of \cup DOMAIN completions_of') \
                               {looked_up} :
                  CompletionsIn(completions_of', other) = CompletionsOf(other)

LogStoresOneOrRaises ==
    \A name \in ArgNames :
        /\ Calls("log_completion", name) => LogContract(name, LogTimes)
        /\ Calls("mark_habit_done", name) => LogContract(strip(name), {now})

C25_LogStoresOneOrRaises == [][LogStoresOneOrRaises]_vars

\* a completion was logged for "Unique", which now has two, next to the
\* stored habit "unique"
C25_Witness ==
    /\ outcome.op = "log_completion"
    /\ outcome.name = Unique
    /\ outcome.returned = "True"
    /\ Len(CompletionsOf(Unique)) = 2
    /\ unique \in StoredNames

\* "Unique" is marked done while only "unique" is stored, with a completion
C25_WitnessRaised ==
    /\ outcome.op = "mark_habit_done"
    /\ outcome.name = Unique
    /\ outcome.raised = "HabitNotFoundError"
    /\ unique \in StoredNames
    /\ Len(CompletionsOf(unique)) > 0

\* " Unique " is marked done and the completion stored for "Unique"
C25_WitnessStripped ==
    /\ outcome.op = "mark_habit_done"
    /\ outcome.name = Padded
    /\ outcome.returned = "True"
    /\ Padded \notin StoredNames
    /\ Len(CompletionsOf(Unique)) > 0

(***************************************************************************)
(* C26: the streaks view_habit_streak shows are those of the completions   *)
(* stored when it is called.  After any calls of add, log, mark and        *)
(* delete, a habit of either schedule with a completion at the current     *)
(* instant is shown a current streak of at least 1, and a daily habit      *)
(* whose completion dates are exactly the k most recent days, today back   *)
(* to today - k + 1, is shown a current streak of k.                       *)
(***************************************************************************)
Viewed ==
    /\ outcome.op = "view_habit_streak"
    /\ outcome.raised = "None"

ViewedName == strip(outcome.name)

ViewedDates == just_dates(CompletionsOf(ViewedName))

C26_StreaksAreFresh ==
    Viewed =>
        /\ \E i \in DOMAIN all_habits :
               /\ all_habits[i].name = ViewedName
               /\ outcome.found = <<all_habits[i]>>
        /\ (\E i \in DOMAIN CompletionsOf(ViewedName) :
                CompletionsOf(ViewedName)[i] = now) =>
               outcome.streaks[1] >= 1
        /\ \A k \in 1..(MaxMarks + Len(morning_run_completions)) :
               (/\ outcome.found[1].schedule = "daily"
                /\ ViewedDates = (today - k + 1)..today) =>
                   outcome.streaks[1] = k

\* a daily habit logged for yesterday and marked done now is viewed
C26_Witness ==
    /\ Viewed
    /\ outcome.found[1].schedule = "daily"
    /\ CompletionsOf(ViewedName) = <<NoonDaysAgo(1), now>>
    /\ outcome.streaks[1] = 2

\* a weekly habit marked done now is viewed under a name with spaces
C26_WitnessWeekly ==
    /\ Viewed
    /\ outcome.name = Padded
    /\ outcome.found[1].schedule = "weekly"
    /\ CompletionsOf(ViewedName) = <<now>>
    /\ outcome.streaks[1] = 1

\* the habit of test_controller_view_habit_streak, viewed after five days
C26_WitnessTest ==
    /\ Viewed
    /\ outcome.name = MorningRunName
    /\ Len(CompletionsOf(MorningRunName)) = 5
    /\ outcome.streaks[1] = 5

(***************************************************************************)
(* C30: after any calls of add_habit, log_completion, mark_habit_done and  *)
(* delete_habit, every stored completion is that of a stored habit: a      *)
(* delete removes the completions of the habit it removes, and leaves      *)
(* those of the other habits, so that a habit added under the name of a    *)
(* deleted one has no completion, and is shown a current and a longest     *)
(* streak of 0 until one is logged.                                        *)
(***************************************************************************)
NoOrphans ==
    /\ \A name \in DOMAIN completions_of :
           Len(completions_of[name]) > 0 => name \in StoredNames
    /\ (Viewed /\ Len(CompletionsOf(ViewedName)) = 0) =>
           outcome.streaks = <<0, 0>>

\* the completions of the habit are gone, those of the others stay
Removed(looked_up) ==
    /\ Len(CompletionsIn(completions_of', looked_up)) = 0
    /\ \A other \in DOMAIN completions_of \ {looked_up} :
           CompletionsIn(completions_of', other) = CompletionsOf(other)

DeleteCascades ==
    /\ \A name \in DeleteNames :
           /\ (Calls("delete_habit", name) /\ outcome'.returned = "True") =>
                  Removed(name)
           /\ (/\ Calls("controller.delete_habit", name)
               /\ outcome'.returned = "True") =>
                  Removed(strip(name))
    /\ \A name \in ArgNames :
           (Calls("add_habit", name) /\ outcome'.returned = "True") =>
               Len(CompletionsIn(completions_of', name)) = 0

C30_CompletionsBelongToHabits == []NoOrphans /\ [][DeleteCascades]_vars

\* the habit of test_controller_view_habit_streak, stored with its five
\* completions only, was deleted, next to a habit that keeps its own
C30_Witness ==
    /\ outcome.op = "delete_habit"
    /\ outcome.name = MorningRunName
    /\ outcome.returned = "True"
    /\ MorningRunName \notin DOMAIN completions_of
    /\ Len(CompletionsOf(Unique)) > 0

====
